---- MODULE Spec2Model ----
(***************************************************************************)
(* Model of the NeuralNetworkBuilder class of script.js: the layer list,   *)
(* the weight and bias tables, the input pattern, the chosen activation    *)
(* function and the stored activations, with one action per event handler  *)
(* of the page.                                                            *)
(*                                                                         *)
(* JavaScript values are records of one shape, so that any two of them can *)
(* be compared:                                                            *)
(*   k = "num"    the number n/d, a normalised fraction (d > 0)            *)
(*   k = "nan"    NaN                                                      *)
(*   k = "undef"  undefined (a hole of an array, a missing property)       *)
(*   k = "arr"    an array, a holding its elements from index 0            *)
(*   k = "app"    f(a[1]) for an f whose value is no fraction (exp, tanh)  *)
(*   k = "add", "mul"   a[1] + a[2], a[1] * a[2] over such values          *)
(* Every weight the model draws or parses is a dyadic fraction of small    *)
(* magnitude, on which IEEE double arithmetic is exact; -0 is 0.           *)
(* Object keys keep the numbers they are formatted from: the weights key   *)
(* `${i}-${i+1}` is <<i, i+1>>, the biases/activations key `${i}` is i.    *)
(***************************************************************************)
EXTENDS Integers, Sequences, FiniteSets, TLC

VARIABLES layers, weights, biases, inputPattern, activations,
          activationFunction, weightInputs, removeDisabled, results, timers,
          lastOp, events, prevLayers, layersBeforeAdd, lastEdit

vars == <<layers, weights, biases, inputPattern, activations,
          activationFunction, weightInputs, removeDisabled, results, timers,
          lastOp, events, prevLayers, layersBeforeAdd, lastEdit>>

(* ------------------------------ bounds --------------------------------- *)

\* The most layers the model lets addHiddenLayer build (the code has no cap).
MaxLayers == 4

\* The number of seeds Math.random's stream is started from.
NumSeeds == 2

\* The most pixel, pattern, activation and weight-input events of one run
\* (add, remove and reset are not counted).
MaxInputEvents == 1

(* --------------------------- JavaScript values ------------------------- *)

Abs(x) == IF x < 0 THEN -x ELSE x

RECURSIVE GCD(_, _)
GCD(a, b) == IF b = 0 THEN a ELSE GCD(b, a % b)

JVal(kind, num, den, fn, args) ==
    [k |-> kind, n |-> num, d |-> den, f |-> fn, a |-> args]

\* The number num/den, in lowest terms with a positive denominator.
Num(num, den) ==
    LET g == GCD(Abs(num), Abs(den))
        s == IF den < 0 THEN -1 ELSE 1
    IN  JVal("num", (s * num) \div g, (s * den) \div g, "", <<>>)

NaN == JVal("nan", 0, 1, "", <<>>)

Undefined == JVal("undef", 0, 1, "", <<>>)

JArr(elems) == JVal("arr", 0, 1, "", elems)

IsNum(v) == v.k = "num"

\* A value that arithmetic turns into NaN: NaN itself, undefined (ToNumber).
IsNaNish(v) == v.k = "nan" \/ v.k = "undef"

\* x * y (a product by the number 0 or 1 needs no arithmetic)
Mul(x, y) ==
    IF IsNum(x) /\ IsNum(y)
    THEN (IF x.n = 0 \/ (y.n = 1 /\ y.d = 1) THEN x
          ELSE IF y.n = 0 \/ (x.n = 1 /\ x.d = 1) THEN y
          ELSE Num(x.n * y.n, x.d * y.d))
    ELSE IF IsNaNish(x) \/ IsNaNish(y) THEN NaN
    ELSE JVal("mul", 0, 1, "", <<x, y>>)

\* x + y (a sum with the number 0 needs no arithmetic)
Add(x, y) ==
    IF IsNum(x) /\ IsNum(y)
    THEN (IF y.n = 0 THEN x
          ELSE IF x.n = 0 THEN y
          ELSE Num(x.n * y.d + y.n * x.d, x.d * y.d))
    ELSE IF IsNaNish(x) \/ IsNaNish(y) THEN NaN
    ELSE JVal("add", 0, 1, "", <<x, y>>)

\* ToBoolean: undefined, NaN and 0 are falsy; arrays and the rest are truthy.
Truthy(v) ==
    IF v.k = "num" THEN v.n # 0 ELSE ~IsNaNish(v)

\* a || b
OrElse(a, b) == IF Truthy(a) THEN a ELSE b

\* arr.length
Length(arr) == Len(arr.a)

\* arr[i], i counted from 0; undefined outside the array.
Idx(arr, i) == IF arr.k = "arr" /\ i >= 0 /\ i < Len(arr.a) THEN arr.a[i + 1] ELSE Undefined

\* arr[i] = v: the array grows, leaving holes, when i is past its end.
SetIdx(arr, i, v) ==
    LET n == IF i + 1 > Len(arr.a) THEN i + 1 ELSE Len(arr.a)
    IN  JArr([p \in 1..n |-> IF p = i + 1 THEN v
                             ELSE IF p <= Len(arr.a) THEN arr.a[p] ELSE Undefined])

\* obj[key]; undefined when the object has no such property.
Get(obj, key) == IF key \in DOMAIN obj THEN obj[key] ELSE Undefined

\* obj[key] = v
Put(obj, key, v) == [x \in DOMAIN obj \cup {key} |-> IF x = key THEN v ELSE obj[x]]

\* The empty object {}.
EmptyObj == [x \in {} |-> Undefined]

(* ------------------------- activation functions ------------------------ *)

ActivationNames == {"sigmoid", "relu", "tanh", "linear"}

\* activationFunctions[name](x)
activationFunctions(name, x) ==
    CASE name = "sigmoid" ->
            IF IsNaNish(x) THEN NaN
            ELSE IF IsNum(x) /\ x.n = 0 THEN Num(1, 2)
            ELSE JVal("app", 0, 1, "sigmoid", <<x>>)
      [] name = "relu" ->
            IF IsNaNish(x) THEN NaN
            ELSE IF IsNum(x) THEN (IF x.n > 0 THEN x ELSE Num(0, 1))
            ELSE JVal("app", 0, 1, "relu", <<x>>)
      [] name = "tanh" ->
            IF IsNaNish(x) THEN NaN
            ELSE IF IsNum(x) /\ x.n = 0 THEN Num(0, 1)
            ELSE JVal("app", 0, 1, "tanh", <<x>>)
      [] name = "linear" -> x

(* ------------------------------ forward pass --------------------------- *)

\* A faulty inner loop that reads layerWeights[j][k].
RECURSIVE WeightedSumTransposed(_, _, _, _, _)
WeightedSumTransposed(prevLayerActivations, layerWeights, j, k, sum) ==
    IF k >= Length(prevLayerActivations) THEN sum
    ELSE LET weight == IF Truthy(Idx(layerWeights, j))
                       THEN Idx(Idx(layerWeights, j), k)
                       ELSE Num(0, 1)
         IN  WeightedSumTransposed(prevLayerActivations, layerWeights, j, k + 1,
                                   Add(sum, Mul(Idx(prevLayerActivations, k), weight)))

\* The inner loop over k of calculateForwardPass, from index k on:
\* sum += prevLayerActivations[k] * (layerWeights[k] ? layerWeights[k][j] : 0).
RECURSIVE WeightedSum(_, _, _, _, _)
WeightedSum(prevLayerActivations, layerWeights, j, k, sum) ==
    IF k >= Length(prevLayerActivations) THEN sum
    ELSE LET weight == IF Truthy(Idx(layerWeights, k))
                       THEN Idx(Idx(layerWeights, k), j)
                       ELSE Num(0, 1)
         IN  WeightedSum(prevLayerActivations, layerWeights, j, k + 1,
                         Add(sum, Mul(Idx(prevLayerActivations, k), weight)))

\* A faulty loop over j whose sum starts from 0 instead of the bias.
LayerOutputNoBias(neurons, prevLayerActivations, layerWeights, layerBiases, fn) ==
    JArr([p \in 1..neurons |->
            activationFunctions(fn,
                WeightedSum(prevLayerActivations, layerWeights, p - 1, 0, Num(0, 1)))])

\* The loop over j: the output of one layer of the given width.
LayerOutput(neurons, prevLayerActivations, layerWeights, layerBiases, fn) ==
    JArr([p \in 1..neurons |->
            activationFunctions(fn,
                WeightedSum(prevLayerActivations, layerWeights, p - 1, 0,
                            OrElse(Idx(layerBiases, p - 1), Num(0, 1))))])

\* The loop over i, from layer i on, newActivations holding layers 0..i-1.
RECURSIVE ForwardFrom(_, _, _, _, _, _)
ForwardFrom(i, newActivations, ls, ws, bs, fn) ==
    IF i >= Len(ls) THEN newActivations
    ELSE ForwardFrom(i + 1,
            Put(newActivations, i,
                LayerOutput(ls[i + 1].neurons,
                            newActivations[i - 1],
                            OrElse(Get(ws, <<i - 1, i>>), JArr(<<>>)),
                            OrElse(Get(bs, i), JArr(<<>>)),
                            fn)),
            ls, ws, bs, fn)

\* A faulty calculateForwardPass that applies the activation function to the
\* input layer too.
calculateForwardPassActivatedInput(ls, ws, bs, pattern, fn) ==
    ForwardFrom(1,
        Put(EmptyObj, 0,
            JArr([p \in 1..Length(pattern) |-> activationFunctions(fn, pattern.a[p])])),
        ls, ws, bs, fn)

\* calculateForwardPass: the activations it stores, for the given state.
calculateForwardPass(ls, ws, bs, pattern, fn) ==
    ForwardFrom(1, Put(EmptyObj, 0, JArr(pattern.a)), ls, ws, bs, fn)

(* ------------------------------- topology ------------------------------ *)

\* The two layers of the constructor and of resetToMIM.
MIMLayers ==
    << [type |-> "input",  neurons |-> 4, name |-> <<"Input (4 pixels)">>],
       [type |-> "output", neurons |-> 2, name |-> <<"Output (Diagonal Detection)">>] >>

\* A faulty preset matrix: the row of input neuron 3 has its signs swapped.
MIMMatrixSwappedRow ==
    JArr(<< JArr(<<Num(1, 2),  Num(-1, 2)>>),
            JArr(<<Num(-1, 2), Num(1, 2)>>),
            JArr(<<Num(-1, 2), Num(1, 2)>>),
            JArr(<<Num(-1, 2), Num(1, 2)>>) >>)

\* The hand-set matrix of the constructor, of resetToMIM and of removeHiddenLayer.
MIMMatrix ==
    JArr(<< JArr(<<Num(1, 2),  Num(-1, 2)>>),
            JArr(<<Num(-1, 2), Num(1, 2)>>),
            JArr(<<Num(-1, 2), Num(1, 2)>>),
            JArr(<<Num(1, 2),  Num(-1, 2)>>) >>)

\* { '0-1': [...] } and { '1': [0, 0] }
MIMWeights == Put(EmptyObj, <<0, 1>>, MIMMatrix)

MIMBiases == Put(EmptyObj, 1, JArr(<<Num(0, 1), Num(0, 1)>>))

Seeds == 1..NumSeeds

\* The Math.random() draws one rebuild can make: 4 * 3, 3 * 3 for each further
\* pair of hidden layers, 3 * 2.
MaxDraws == 12 + 9 * (MaxLayers - 3) + 6

\* Math.random() is a seeded stream: here a full-period congruential stream
\* over the eighths of [0, 1). StreamStates[seed][n + 1] is its state at draw n.
RECURSIVE StreamFrom(_, _)
StreamFrom(state, n) ==
    IF n = 0 THEN <<>> ELSE <<state>> \o StreamFrom((5 * state + 3) % 8, n - 1)

StreamStates == [seed \in Seeds |-> StreamFrom(seed % 8, MaxDraws + 1)]

\* Math.random(): the n-th draw (n from 0) of the stream started from `seed`.
MathRandom(seed, n) == Num(StreamStates[seed][n + 1], 8)

\* Math.random() * 2 - 1 for every draw of every stream: RandomWeights[seed][n + 1]
\* is the weight the n-th draw gives.
RandomWeights ==
    [seed \in Seeds |->
        [p \in 1..(MaxDraws + 1) |->
            Add(Mul(MathRandom(seed, p - 1), Num(2, 1)), Num(-1, 1))]]

\* Array(rows).fill().map(() => Array(cols).fill().map(() => Math.random() * 2 - 1)),
\* the stream having made `drawn` draws before.
RandomMatrix(rows, cols, seed, drawn) ==
    JArr([r \in 1..rows |->
            JArr([c \in 1..cols |->
                    RandomWeights[seed][drawn + (r - 1) * cols + (c - 1) + 1]])])

\* Array(n).fill(0)
ZeroArray(n) == JArr([p \in 1..n |-> Num(0, 1)])

\* The draws made for the layer pairs before pair (i, i+1) of ls.
RECURSIVE DrawsBefore(_, _)
DrawsBefore(ls, i) ==
    IF i = 0 THEN 0
    ELSE DrawsBefore(ls, i - 1) + ls[i].neurons * ls[i + 1].neurons

\* The keys `${i}-${i+1}` of the loop for (i = 0; i < layers.length - 1; i++).
PairKeys(ls) == { <<i, i + 1>> : i \in 0..(Len(ls) - 2) }

\* seq.splice(start, 0, item): the sequence with item inserted.
SpliceInsert(seq, start, item) ==
    LET at == IF start < 0
              THEN (IF Len(seq) + start < 0 THEN 0 ELSE Len(seq) + start)
              ELSE (IF start > Len(seq) THEN Len(seq) ELSE start)
    IN  [p \in 1..(Len(seq) + 1) |->
            IF p <= at THEN seq[p] ELSE IF p = at + 1 THEN item ELSE seq[p - 1]]

\* seq.slice(begin, end)
Slice(seq, begin, end) ==
    LET len == Len(seq)
        b == IF begin < 0 THEN (IF len + begin < 0 THEN 0 ELSE len + begin)
             ELSE (IF begin > len THEN len ELSE begin)
        e == IF end < 0 THEN (IF len + end < 0 THEN 0 ELSE len + end)
             ELSE (IF end > len THEN len ELSE end)
    IN  IF e <= b THEN <<>> ELSE [p \in 1..(e - b) |-> seq[b + p]]

\* A faulty addHiddenLayer that pushes the new layer after the output layer.
AddLayersAppend(ls) ==
    Append(ls, [type |-> "hidden", neurons |-> 3, name |-> <<"Hidden", Len(ls) - 1>>])

\* A faulty addHiddenLayer that gives the new layer the width of the input
\* layer.
AddLayersWide(ls) ==
    SpliceInsert(ls, -1,
        [type |-> "hidden", neurons |-> 4, name |-> <<"Hidden", Len(ls) - 1>>])

\* A faulty addHiddenLayer that numbers the new layer by the length of the
\* layer list it found.
AddLayersNamedByLength(ls) ==
    SpliceInsert(ls, -1,
        [type |-> "hidden", neurons |-> 3, name |-> <<"Hidden", Len(ls)>>])

\* addHiddenLayer: the new layer list.
AddLayers(ls) ==
    SpliceInsert(ls, -1,
        [type |-> "hidden", neurons |-> 3, name |-> <<"Hidden", Len(ls) - 1>>])

\* A faulty addHiddenLayer whose rebuild loop runs over the layer list it had
\* before the insertion.
AddWeightsStale(ls, seed) ==
    LET old == Slice(ls, 0, -2) \o Slice(ls, -1, Len(ls))
    IN  [key \in PairKeys(old) |->
            RandomMatrix(old[key[1] + 1].neurons, old[key[2] + 1].neurons,
                         seed, DrawsBefore(old, key[1]))]

\* A faulty addHiddenLayer that does not delete the keys of the copy and draws
\* a matrix only for a key the copy lacks.
AddWeightsCarryOver(ls, seed) ==
    [key \in PairKeys(ls) |->
        IF key \in DOMAIN weights
        THEN weights[key]
        ELSE RandomMatrix(ls[key[1] + 1].neurons, ls[key[2] + 1].neurons,
                          seed, DrawsBefore(ls, key[1]))]

\* addHiddenLayer: the rebuilt weights, every key of the copy deleted first.
AddWeights(ls, seed) ==
    [key \in PairKeys(ls) |->
        RandomMatrix(ls[key[1] + 1].neurons, ls[key[2] + 1].neurons,
                     seed, DrawsBefore(ls, key[1]))]

\* addHiddenLayer: the rebuilt biases.
AddBiases(ls) == [i \in 1..(Len(ls) - 1) |-> ZeroArray(ls[i + 1].neurons)]

\* A faulty removeHiddenLayer that drops the last layer.
RemoveLayersDropOutput(ls) == Slice(ls, 0, -1)

\* A faulty removeHiddenLayer whose first slice ends one layer early.
RemoveLayersOffByOne(ls) == Slice(ls, 0, -3) \o Slice(ls, -1, Len(ls))

\* removeHiddenLayer: the new layer list.
RemoveLayers(ls) == Slice(ls, 0, -2) \o Slice(ls, -1, Len(ls))

\* A faulty removeHiddenLayer that keeps the matrix of every pair that does not
\* touch the removed layer.
RemoveWeightsCarryOver(ls, seed) ==
    [key \in PairKeys(ls) |->
        IF key[2] < Len(ls) - 1 /\ key \in DOMAIN weights
        THEN weights[key]
        ELSE IF key[1] = 0 /\ Len(ls) = 2
        THEN MIMMatrix
        ELSE RandomMatrix(ls[key[1] + 1].neurons, ls[key[2] + 1].neurons,
                          seed, DrawsBefore(ls, key[1]))]

\* A faulty removeHiddenLayer without the branch for the two-layer network.
RemoveWeightsAllRandom(ls, seed) ==
    [key \in PairKeys(ls) |->
        RandomMatrix(ls[key[1] + 1].neurons, ls[key[2] + 1].neurons,
                     seed, DrawsBefore(ls, key[1]))]

\* removeHiddenLayer: the weights built for the new layer list.
RemoveWeights(ls, seed) ==
    [key \in PairKeys(ls) |->
        IF key[1] = 0 /\ Len(ls) = 2
        THEN MIMMatrix
        ELSE RandomMatrix(ls[key[1] + 1].neurons, ls[key[2] + 1].neurons,
                          seed, DrawsBefore(ls, key[1]))]

\* A faulty removeHiddenLayer that fills a copy of the biases it found, so the
\* vector of the removed layer's successor stays under its old key.
RemoveBiasesOnCopy(ls) ==
    [i \in DOMAIN biases \cup 1..(Len(ls) - 1) |->
        IF i <= Len(ls) - 1 THEN ZeroArray(ls[i + 1].neurons) ELSE biases[i]]

\* removeHiddenLayer: the biases built for the new layer list.
RemoveBiases(ls) == [i \in 1..(Len(ls) - 1) |-> ZeroArray(ls[i + 1].neurons)]

\* updateRemoveButtonState: the value it assigns to removeLayerBtn.disabled.
updateRemoveButtonState(ls) == Len(ls) <= 2

\* renderResults: the output activations it reads and displays,
\* this.activations[`${this.layers.length - 1}`] || [].
renderResults(ls, acts) == OrElse(Get(acts, Len(ls) - 1), JArr(<<>>))

\* The delayed callbacks that are pending. results counts the callbacks of
\* animateCalculation (renderResults and renderMathematicalBreakdown after
\* 500 ms); visual counts the renderNetwork(true) calls with pulse or fade
\* callbacks still to run, which touch the class list and the style of the
\* elements that call created and nothing else.
NoTimers == [results |-> 0, visual |-> 0]

\* animateCalculation: renderNetwork(true), then setTimeout(..., 500).
animateCalculation(pending) ==
    [results |-> pending.results + 1, visual |-> pending.visual + 1]

\* renderWeightMatrices: the (layerKey, fromNeuron, toNeuron) of the inputs it
\* creates, one per element the two forEach loops visit (forEach skips holes).
renderWeightMatrices(ls, ws) ==
    UNION { LET layerWeights == OrElse(Get(ws, key), JArr(<<>>))
            IN  UNION { { <<key, r, c>> : c \in { x \in 0..(Length(Idx(layerWeights, r)) - 1) :
                                                  Idx(Idx(layerWeights, r), x).k # "undef" } }
                        : r \in { y \in 0..(Length(layerWeights) - 1) :
                                  Idx(layerWeights, y).k # "undef" } }
            : key \in PairKeys(ls) }

(* ------------------------------ parseFloat ----------------------------- *)

\* A string is the sequence of its characters.
Digits == <<"0", "1", "2", "3", "4", "5", "6", "7", "8", "9">>

IsDigit(c) == \E p \in 1..10 : Digits[p] = c

DigitValue(c) == (CHOOSE p \in 1..10 : Digits[p] = c) - 1

RECURSIVE Pow10(_)
Pow10(n) == IF n = 0 THEN 1 ELSE 10 * Pow10(n - 1)

\* The first position from i on that holds no white space.
RECURSIVE SkipSpaces(_, _)
SkipSpaces(str, i) ==
    IF i <= Len(str) /\ str[i] = " " THEN SkipSpaces(str, i + 1) ELSE i

\* The first position from i on that holds no digit.
RECURSIVE DigitsEnd(_, _)
DigitsEnd(str, i) ==
    IF i <= Len(str) /\ IsDigit(str[i]) THEN DigitsEnd(str, i + 1) ELSE i

\* The decimal number written by the digits str[i..j-1]; 0 for none.
RECURSIVE DigitsNumber(_, _, _)
DigitsNumber(str, i, j) ==
    IF j <= i THEN 0 ELSE 10 * DigitsNumber(str, i, j - 1) + DigitValue(str[j - 1])

\* parseFloat(str): leading white space, a sign, digits, a fraction; the rest of
\* the string is ignored; NaN when no number starts the string. (Exponents and
\* "Infinity" are not read: no string of the model holds one.)
parseFloat(str) ==
    LET start   == SkipSpaces(str, 1)
        signed  == start <= Len(str) /\ str[start] \in {"-", "+"}
        sign    == IF signed /\ str[start] = "-" THEN -1 ELSE 1
        intFrom == IF signed THEN start + 1 ELSE start
        intTo   == DigitsEnd(str, intFrom)
        dot     == intTo <= Len(str) /\ str[intTo] = "."
        fracTo  == IF dot THEN DigitsEnd(str, intTo + 1) ELSE intTo
        fracLen == IF dot THEN fracTo - (intTo + 1) ELSE 0
    IN  IF intTo = intFrom /\ fracLen = 0 THEN NaN
        ELSE Num(sign * (DigitsNumber(str, intFrom, intTo) * Pow10(fracLen)
                         + DigitsNumber(str, intTo + 1, fracTo)),
                 Pow10(fracLen))

\* The strings a weight input hands to updateWeight in the model.
RawValues == { <<>>, <<"-", "2", ".", "5">> }

(* ------------------------------ the page ------------------------------- *)

\* data-index of the four .pixel buttons of #pixelGrid.
PixelIndexes == { <<"0">>, <<"1">>, <<"2">>, <<"3">> }

\* data-pattern of the seven .pattern-btn buttons.
PresetPatterns ==
    { <<"1", ",", "0", ",", "0", ",", "1">>,
      <<"0", ",", "1", ",", "1", ",", "0">>,
      <<"1", ",", "1", ",", "0", ",", "0">>,
      <<"1", ",", "0", ",", "1", ",", "0">>,
      <<"0", ",", "1", ",", "1", ",", "1">>,
      <<"0", ",", "0", ",", "0", ",", "0">>,
      <<"1", ",", "1", ",", "1", ",", "1">> }

\* The first position from i on that holds sep, or Len(str) + 1.
RECURSIVE FindSep(_, _, _)
FindSep(str, sep, i) ==
    IF i > Len(str) \/ str[i] = sep THEN i ELSE FindSep(str, sep, i + 1)

\* str.split(sep), from position i on.
RECURSIVE SplitFrom(_, _, _)
SplitFrom(str, sep, i) ==
    LET j == FindSep(str, sep, i)
    IN  IF j > Len(str) THEN << SubSeq(str, i, Len(str)) >>
        ELSE << SubSeq(str, i, j - 1) >> \o SplitFrom(str, sep, j + 1)

\* A faulty split that cuts the string at every character: split('').
splitChars(str, sep) == [p \in 1..Len(str) |-> <<str[p]>>]

\* str.split(sep)
split(str, sep) == SplitFrom(str, sep, 1)

\* Number(str) of a string of digits: 0 for the empty string, NaN for any
\* string that is not all digits (no string of the page holds a sign or a dot).
Number(str) ==
    IF str = <<>> THEN Num(0, 1)
    ELSE IF DigitsEnd(str, 1) = Len(str) + 1 THEN Num(DigitsNumber(str, 1, Len(str) + 1), 1)
    ELSE NaN

\* parseInt(str) of the same strings: NaN unless digits start the string.
parseInt(str) ==
    IF DigitsEnd(str, 1) = 1 THEN NaN ELSE Num(DigitsNumber(str, 1, DigitsEnd(str, 1)), 1)

(* ------------------------------- handlers ------------------------------ *)

\* constructor, init
Init ==
    /\ layers = MIMLayers
    /\ weights = MIMWeights
    /\ biases = MIMBiases
    /\ inputPattern = JArr(<<Num(1, 1), Num(0, 1), Num(0, 1), Num(1, 1)>>)
    /\ activationFunction = "sigmoid"
    /\ activations = calculateForwardPass(layers, weights, biases, inputPattern,
                                          activationFunction)
    /\ weightInputs = renderWeightMatrices(layers, weights)
    /\ lastOp = "init"
    /\ events = 0
    /\ prevLayers = layers
    /\ layersBeforeAdd = <<>>
    /\ lastEdit = <<>>
    /\ removeDisabled = FALSE
    /\ results = renderResults(layers, activations)
    /\ timers = NoTimers

\* A faulty change listener that assigns the choice and leaves the
\* activations of the pass before in place.
ActivationChangeNoPass(value) ==
    /\ events < MaxInputEvents
    /\ events' = events + 1
    /\ activationFunction' = value
    /\ lastOp' = "activation"
    /\ prevLayers' = layers
    /\ layersBeforeAdd' = <<>>
    /\ lastEdit' = <<>>
    /\ UNCHANGED activations
    /\ results' = renderResults(layers, activations')
    /\ UNCHANGED <<removeDisabled, timers>>
    /\ UNCHANGED <<layers, weights, biases, inputPattern, weightInputs>>

\* activationSelect change
ActivationChange(value) ==
    /\ events < MaxInputEvents
    /\ events' = events + 1
    /\ activationFunction' = value
    /\ activations' = calculateForwardPass(layers, weights, biases, inputPattern,
                                           activationFunction')
    /\ lastOp' = "activation"
    /\ prevLayers' = layers
    /\ layersBeforeAdd' = <<>>
    /\ lastEdit' = <<>>
    /\ results' = renderResults(layers, activations')
    /\ UNCHANGED <<removeDisabled, timers>>
    /\ UNCHANGED <<layers, weights, biases, inputPattern, weightInputs>>

\* A faulty toggle that switches the pixel on whatever it was.
TogglePixelOn(pattern, index) == SetIdx(pattern, index, Num(1, 1))

\* this.inputPattern[index] = 1 - this.inputPattern[index]
TogglePixel(pattern, index) ==
    SetIdx(pattern, index, Add(Num(1, 1), Mul(Num(-1, 1), Idx(pattern, index))))

\* A faulty pixel handler that does not call calculateForwardPass.
PixelClickStale(dataIndex) ==
    LET index == parseInt(dataIndex).n
    IN  /\ events < MaxInputEvents
        /\ events' = events + 1
        /\ inputPattern' = TogglePixel(inputPattern, index)
        /\ lastOp' = "pixel"
        /\ prevLayers' = layers
        /\ layersBeforeAdd' = <<>>
        /\ lastEdit' = <<>>
        /\ UNCHANGED activations
        /\ results' = renderResults(layers, activations')
        /\ UNCHANGED <<removeDisabled, timers>>
        /\ UNCHANGED <<layers, weights, biases, activationFunction, weightInputs>>

\* pixelGrid click on a .pixel button
PixelClick(dataIndex) ==
    LET index == parseInt(dataIndex).n
    IN  /\ events < MaxInputEvents
        /\ events' = events + 1
        /\ inputPattern' = TogglePixel(inputPattern, index)
        /\ activations' = calculateForwardPass(layers, weights, biases, inputPattern',
                                               activationFunction)
        /\ lastOp' = "pixel"
        /\ prevLayers' = layers
        /\ layersBeforeAdd' = <<>>
        /\ lastEdit' = <<>>
        /\ timers' = animateCalculation(timers)
        /\ results' = renderResults(layers, activations')
        /\ UNCHANGED removeDisabled
        /\ UNCHANGED <<layers, weights, biases, activationFunction, weightInputs>>

\* e.target.dataset.pattern.split(',').map(Number)
ParsePattern(dataPattern) ==
    LET parts == split(dataPattern, ",")
    IN  JArr([p \in 1..Len(parts) |-> Number(parts[p])])

\* .pattern-btn click
PatternClick(dataPattern) ==
    LET pattern == ParsePattern(dataPattern)
    IN  /\ events < MaxInputEvents
        /\ events' = events + 1
        /\ inputPattern' = pattern
        /\ activations' = calculateForwardPass(layers, weights, biases, inputPattern',
                                               activationFunction)
        /\ lastOp' = "pattern"
        /\ prevLayers' = layers
        /\ layersBeforeAdd' = <<>>
        /\ lastEdit' = <<>>
        /\ timers' = animateCalculation(timers)
        /\ results' = renderResults(layers, activations')
        /\ UNCHANGED removeDisabled
        /\ UNCHANGED <<layers, weights, biases, activationFunction, weightInputs>>

\* addHiddenLayer
AddHiddenLayer(seed) ==
    /\ Len(layers) < MaxLayers
    /\ layers' = AddLayers(layers)
    /\ weights' = AddWeights(layers', seed)
    /\ biases' = AddBiases(layers')
    /\ activations' = calculateForwardPass(layers', weights', biases', inputPattern,
                                           activationFunction)
    /\ weightInputs' = renderWeightMatrices(layers', weights')
    /\ lastOp' = "add"
    /\ prevLayers' = layers
    /\ layersBeforeAdd' = layers
    /\ lastEdit' = <<>>
    /\ results' = renderResults(layers', activations')
    /\ removeDisabled' = updateRemoveButtonState(layers')
    /\ UNCHANGED timers
    /\ UNCHANGED <<inputPattern, activationFunction, events>>

\* A faulty removeHiddenLayer whose forward pass writes into the activations
\* object of the pass before instead of a new one.
RemoveHiddenLayerMerge(seed) ==
    /\ IF Len(layers) <= 2
       THEN UNCHANGED <<layers, weights, biases, activations, weightInputs,
                        results, removeDisabled>>
       ELSE /\ layers' = RemoveLayers(layers)
            /\ weights' = RemoveWeights(layers', seed)
            /\ biases' = RemoveBiases(layers')
            /\ activations' =
                  LET fresh == calculateForwardPass(layers', weights', biases',
                                                    inputPattern, activationFunction)
                  IN  [i \in DOMAIN activations \cup DOMAIN fresh |->
                          IF i \in DOMAIN fresh THEN fresh[i] ELSE activations[i]]
            /\ weightInputs' = renderWeightMatrices(layers', weights')
            /\ results' = renderResults(layers', activations')
            /\ removeDisabled' = updateRemoveButtonState(layers')
    /\ lastOp' = "remove"
    /\ prevLayers' = layers
    /\ layersBeforeAdd' = IF lastOp = "add" THEN layersBeforeAdd ELSE <<>>
    /\ lastEdit' = <<>>
    /\ UNCHANGED timers
    /\ UNCHANGED <<inputPattern, activationFunction, events>>

\* A faulty removeHiddenLayer without the early return.
RemoveHiddenLayerNoGuard(seed) ==
    /\ layers' = RemoveLayers(layers)
    /\ weights' = RemoveWeights(layers', seed)
    /\ biases' = RemoveBiases(layers')
    /\ activations' = calculateForwardPass(layers', weights', biases',
                                           inputPattern, activationFunction)
    /\ weightInputs' = renderWeightMatrices(layers', weights')
    /\ lastOp' = "remove"
    /\ prevLayers' = layers
    /\ layersBeforeAdd' = IF lastOp = "add" THEN layersBeforeAdd ELSE <<>>
    /\ lastEdit' = <<>>
    /\ results' = renderResults(layers', activations')
    /\ removeDisabled' = updateRemoveButtonState(layers')
    /\ UNCHANGED timers
    /\ UNCHANGED <<inputPattern, activationFunction, events>>

\* removeHiddenLayer
RemoveHiddenLayer(seed) ==
    /\ IF Len(layers) <= 2
       THEN UNCHANGED <<layers, weights, biases, activations, weightInputs,
                        results, removeDisabled>>
       ELSE /\ layers' = RemoveLayers(layers)
            /\ weights' = RemoveWeights(layers', seed)
            /\ biases' = RemoveBiases(layers')
            /\ activations' = calculateForwardPass(layers', weights', biases',
                                                   inputPattern, activationFunction)
            /\ weightInputs' = renderWeightMatrices(layers', weights')
            /\ results' = renderResults(layers', activations')
            /\ removeDisabled' = updateRemoveButtonState(layers')
    /\ lastOp' = "remove"
    /\ prevLayers' = layers
    /\ layersBeforeAdd' = IF lastOp = "add" THEN layersBeforeAdd ELSE <<>>
    /\ lastEdit' = <<>>
    /\ UNCHANGED timers
    /\ UNCHANGED <<inputPattern, activationFunction, events>>

\* The streams a removeHiddenLayer call can draw from: it makes no draw when it
\* returns at once or leaves two layers.
RemoveSeeds == IF Len(layers) <= 3 THEN {1} ELSE Seeds

\* A faulty resetToMIM that restores the preset matrix only when the weights
\* object has no '0-1' entry.
ResetToMIMKeepWeights ==
    /\ layers' = MIMLayers
    /\ weights' = Put(EmptyObj, <<0, 1>>, OrElse(Get(weights, <<0, 1>>), MIMMatrix))
    /\ biases' = MIMBiases
    /\ activations' = calculateForwardPass(layers', weights', biases', inputPattern,
                                           activationFunction)
    /\ weightInputs' = renderWeightMatrices(layers', weights')
    /\ lastOp' = "reset"
    /\ prevLayers' = layers
    /\ layersBeforeAdd' = <<>>
    /\ lastEdit' = <<>>
    /\ results' = renderResults(layers', activations')
    /\ removeDisabled' = updateRemoveButtonState(layers')
    /\ UNCHANGED timers
    /\ UNCHANGED <<inputPattern, activationFunction, events>>

\* A faulty resetToMIM that also restores the start-up pattern and the
\* start-up activation function.
ResetToMIMRestoreInput ==
    /\ layers' = MIMLayers
    /\ weights' = MIMWeights
    /\ biases' = MIMBiases
    /\ inputPattern' = JArr(<<Num(1, 1), Num(0, 1), Num(0, 1), Num(1, 1)>>)
    /\ activationFunction' = "sigmoid"
    /\ activations' = calculateForwardPass(layers', weights', biases', inputPattern',
                                           activationFunction')
    /\ weightInputs' = renderWeightMatrices(layers', weights')
    /\ lastOp' = "reset"
    /\ prevLayers' = layers
    /\ layersBeforeAdd' = <<>>
    /\ lastEdit' = <<>>
    /\ results' = renderResults(layers', activations')
    /\ removeDisabled' = updateRemoveButtonState(layers')
    /\ UNCHANGED timers
    /\ UNCHANGED <<events>>

\* resetToMIM
ResetToMIM ==
    /\ layers' = MIMLayers
    /\ weights' = MIMWeights
    /\ biases' = MIMBiases
    /\ activations' = calculateForwardPass(layers', weights', biases', inputPattern,
                                           activationFunction)
    /\ weightInputs' = renderWeightMatrices(layers', weights')
    /\ lastOp' = "reset"
    /\ prevLayers' = layers
    /\ layersBeforeAdd' = <<>>
    /\ lastEdit' = <<>>
    /\ results' = renderResults(layers', activations')
    /\ removeDisabled' = updateRemoveButtonState(layers')
    /\ UNCHANGED timers
    /\ UNCHANGED <<inputPattern, activationFunction, events>>

\* A faulty updateWeight that writes weights[layerKey][toNeuron][fromNeuron].
UpdatedWeightsSwapped(ws, layerKey, fromNeuron, toNeuron, value) ==
    LET w1 == IF ~Truthy(Get(ws, layerKey)) THEN Put(ws, layerKey, JArr(<<>>)) ELSE ws
        w2 == IF ~Truthy(Idx(w1[layerKey], toNeuron))
              THEN Put(w1, layerKey, SetIdx(w1[layerKey], toNeuron, JArr(<<>>)))
              ELSE w1
    IN  Put(w2, layerKey,
            SetIdx(w2[layerKey], toNeuron,
                   SetIdx(Idx(w2[layerKey], toNeuron), fromNeuron,
                          OrElse(parseFloat(value), Num(0, 1)))))

\* A faulty updateWeight that stores parseFloat(value) without the `|| 0`.
UpdatedWeightsNoDefault(ws, layerKey, fromNeuron, toNeuron, value) ==
    LET w1 == IF ~Truthy(Get(ws, layerKey)) THEN Put(ws, layerKey, JArr(<<>>)) ELSE ws
        w2 == IF ~Truthy(Idx(w1[layerKey], fromNeuron))
              THEN Put(w1, layerKey, SetIdx(w1[layerKey], fromNeuron, JArr(<<>>)))
              ELSE w1
    IN  Put(w2, layerKey,
            SetIdx(w2[layerKey], fromNeuron,
                   SetIdx(Idx(w2[layerKey], fromNeuron), toNeuron, parseFloat(value))))

\* updateWeight: the weights object after the three assignments.
UpdatedWeights(ws, layerKey, fromNeuron, toNeuron, value) ==
    LET w1 == IF ~Truthy(Get(ws, layerKey)) THEN Put(ws, layerKey, JArr(<<>>)) ELSE ws
        w2 == IF ~Truthy(Idx(w1[layerKey], fromNeuron))
              THEN Put(w1, layerKey, SetIdx(w1[layerKey], fromNeuron, JArr(<<>>)))
              ELSE w1
    IN  Put(w2, layerKey,
            SetIdx(w2[layerKey], fromNeuron,
                   SetIdx(Idx(w2[layerKey], fromNeuron), toNeuron,
                          OrElse(parseFloat(value), Num(0, 1)))))

\* A faulty updateWeight that leaves the results to the delayed callback of
\* animateCalculation instead of calling renderResults itself.
UpdateWeightLateResults(layerKey, fromNeuron, toNeuron, value) ==
    /\ events < MaxInputEvents
    /\ lastOp # "weight"
    /\ weights' = UpdatedWeights(weights, layerKey, fromNeuron, toNeuron, value)
    /\ activations' = calculateForwardPass(layers, weights', biases, inputPattern,
                                           activationFunction)
    /\ lastOp' = "weight"
    /\ events' = events + 1
    /\ prevLayers' = layers
    /\ layersBeforeAdd' = <<>>
    /\ lastEdit' = <<layerKey, fromNeuron, toNeuron, value>>
    /\ timers' = animateCalculation(timers)
    /\ UNCHANGED <<removeDisabled, results>>
    /\ UNCHANGED <<layers, biases, inputPattern, activationFunction, weightInputs>>

\* updateWeight, called by the change listener of a weight input. The first
\* two conjuncts bound the exploration: the budget of input events, and one
\* edit at a time (a second edit follows only another operation).
UpdateWeight(layerKey, fromNeuron, toNeuron, value) ==
    /\ events < MaxInputEvents
    /\ lastOp # "weight"
    /\ weights' = UpdatedWeights(weights, layerKey, fromNeuron, toNeuron, value)
    /\ activations' = calculateForwardPass(layers, weights', biases, inputPattern,
                                           activationFunction)
    /\ lastOp' = "weight"
    /\ events' = events + 1
    /\ prevLayers' = layers
    /\ layersBeforeAdd' = <<>>
    /\ lastEdit' = <<layerKey, fromNeuron, toNeuron, value>>
    /\ timers' = animateCalculation(timers)
    /\ results' = renderResults(layers, activations')
    /\ UNCHANGED removeDisabled
    /\ UNCHANGED <<layers, biases, inputPattern, activationFunction, weightInputs>>

Next ==
    \/ \E value \in ActivationNames : ActivationChange(value)
    \/ \E dataIndex \in PixelIndexes : PixelClick(dataIndex)
    \/ \E dataPattern \in PresetPatterns : PatternClick(dataPattern)
    \/ \E seed \in Seeds : AddHiddenLayer(seed)
    \/ \E seed \in RemoveSeeds : RemoveHiddenLayer(seed)
    \/ ResetToMIM
    \/ \E input \in weightInputs, value \in RawValues :
          UpdateWeight(input[1], input[2], input[3], value)

Spec == Init /\ [][Next]_vars

(* --------------------------- delayed callbacks ------------------------- *)

\* A faulty callback that clears the stored activations before it redraws.
AnimateCallbackClearing ==
    /\ timers.results > 0
    /\ timers' = [timers EXCEPT !.results = @ - 1]
    /\ activations' = EmptyObj
    /\ results' = renderResults(layers, activations')
    /\ UNCHANGED <<layers, weights, biases, inputPattern,
                   activationFunction, weightInputs, removeDisabled,
                   lastOp, events, prevLayers, layersBeforeAdd, lastEdit>>

\* The callback animateCalculation hands to setTimeout:
\* () => { this.renderResults(); this.renderMathematicalBreakdown(); }
AnimateCallback ==
    /\ timers.results > 0
    /\ timers' = [timers EXCEPT !.results = @ - 1]
    /\ results' = renderResults(layers, activations)
    /\ UNCHANGED <<layers, weights, biases, inputPattern, activations,
                   activationFunction, weightInputs, removeDisabled,
                   lastOp, events, prevLayers, layersBeforeAdd, lastEdit>>

\* The last pending pulse or fade callback of one renderNetwork(true) call:
\* neuronDiv.classList, signalDot.style, signalDot.remove().
VisualCallback ==
    /\ timers.visual > 0
    /\ timers' = [timers EXCEPT !.visual = @ - 1]
    /\ UNCHANGED <<layers, weights, biases, inputPattern, activations,
                   activationFunction, weightInputs, removeDisabled, results,
                   lastOp, events, prevLayers, layersBeforeAdd, lastEdit>>

\* The handlers of the page together with the delayed callbacks; a weight is
\* edited through the first input of a matrix.
TimerNext ==
    \/ \E value \in ActivationNames : ActivationChange(value)
    \/ \E dataIndex \in PixelIndexes : PixelClick(dataIndex)
    \/ \E dataPattern \in PresetPatterns : PatternClick(dataPattern)
    \/ \E seed \in Seeds : AddHiddenLayer(seed)
    \/ \E seed \in RemoveSeeds : RemoveHiddenLayer(seed)
    \/ ResetToMIM
    \/ \E input \in weightInputs, value \in RawValues :
          /\ input[2] = 0
          /\ input[3] = 0
          /\ UpdateWeight(input[1], input[2], input[3], value)
    \/ AnimateCallback
    \/ VisualCallback

TimerSpec == Init /\ [][TimerNext]_vars

(* ------------------------ the forward pass alone ----------------------- *)

\* arr with its element i (from 0) a hole: reading it gives undefined.
Hole(arr, i) ==
    JArr([p \in 1..Length(arr) |-> IF p = i + 1 THEN Undefined ELSE arr.a[p]])

\* obj without the property key.
Delete(obj, key) == [x \in DOMAIN obj \ {key} |-> obj[x]]

\* The layer lists the pass is run on: the preset network, and the network
\* with one hidden layer.
PassLayerLists == { MIMLayers, AddLayers(MIMLayers) }

\* The weight tables the pass is run on: the preset matrix, or a drawn table.
PassWeights(ls) ==
    IF Len(ls) = 2 THEN { MIMWeights } ELSE { AddWeights(ls, seed) : seed \in Seeds }

\* The bias tables the pass is run on: every bias 0, or every bias 0.25.
PassBiases(ls) ==
    { [i \in 1..(Len(ls) - 1) |-> JArr([p \in 1..ls[i + 1].neurons |-> v])]
      : v \in { Num(0, 1), Num(1, 4) } }

\* The sixteen patterns of four pixels.
BinaryPatterns ==
    { JArr(<<Num(a, 1), Num(b, 1), Num(c, 1), Num(d, 1)>>)
      : a \in {0, 1}, b \in {0, 1}, c \in {0, 1}, d \in {0, 1} }

\* What a table may lack: nothing, the matrix of a pair, one row of a matrix,
\* one entry of a row, the bias vector of a layer, one entry of a bias vector.
Absences(ls) ==
    { <<"none">> }
    \cup { <<"matrix", key>> : key \in PairKeys(ls) }
    \cup UNION { { <<"row", key, r>> : r \in 0..(ls[key[1] + 1].neurons - 1) }
                 : key \in PairKeys(ls) }
    \cup UNION { { <<"entry", key, r, c>> : r \in 0..(ls[key[1] + 1].neurons - 1),
                                            c \in 0..(ls[key[2] + 1].neurons - 1) }
                 : key \in PairKeys(ls) }
    \cup { <<"biases", i>> : i \in 1..(Len(ls) - 1) }
    \cup UNION { { <<"bias", i, j>> : j \in 0..(ls[i + 1].neurons - 1) }
                 : i \in 1..(Len(ls) - 1) }

\* The weights ws with the absence applied.
AbsentWeights(ws, absence) ==
    CASE absence[1] = "matrix" -> Delete(ws, absence[2])
      [] absence[1] = "row" -> Put(ws, absence[2], Hole(ws[absence[2]], absence[3]))
      [] absence[1] = "entry" ->
            Put(ws, absence[2],
                SetIdx(ws[absence[2]], absence[3],
                       Hole(Idx(ws[absence[2]], absence[3]), absence[4])))
      [] OTHER -> ws

\* The biases bs with the absence applied.
AbsentBiases(bs, absence) ==
    CASE absence[1] = "biases" -> Delete(bs, absence[2])
      [] absence[1] = "bias" -> Put(bs, absence[2], Hole(bs[absence[2]], absence[3]))
      [] OTHER -> bs

\* The fields calculateForwardPass reads, before it has run: this.activations
\* is the {} of the constructor.
PassInit ==
    /\ \E ls \in PassLayerLists :
          /\ layers = ls
          /\ \E ws \in PassWeights(ls), bs \in PassBiases(ls), absence \in Absences(ls) :
                /\ weights = AbsentWeights(ws, absence)
                /\ biases = AbsentBiases(bs, absence)
    /\ inputPattern \in BinaryPatterns
    /\ activationFunction \in ActivationNames
    /\ activations = EmptyObj
    /\ weightInputs = {}
    /\ lastOp = "construct"
    /\ events = 0
    /\ prevLayers = layers
    /\ layersBeforeAdd = <<>>
    /\ lastEdit = <<>>
    /\ removeDisabled = FALSE
    /\ results = JArr(<<>>)
    /\ timers = NoTimers

\* calculateForwardPass()
CalculateForwardPass ==
    /\ activations' = calculateForwardPass(layers, weights, biases, inputPattern,
                                           activationFunction)
    /\ lastOp' = "pass"
    /\ UNCHANGED <<layers, weights, biases, inputPattern, activationFunction,
                   weightInputs, removeDisabled, results, timers, events,
                   prevLayers, layersBeforeAdd, lastEdit>>

\* A faulty pass that stores this.inputPattern itself under key 0.
InputAliasesShared == {0}

\* The keys of the stored activations whose array is the inputPattern array
\* itself: none, [...this.inputPattern] is a new array.
InputAliases == {}

\* this.inputPattern[index] = 1 - this.inputPattern[index], the in-place
\* assignment of the pixel handler taken alone, after a pass: an array that
\* is the inputPattern array changes with it.
TogglePixelInPlace(index) ==
    /\ lastOp = "pass"
    /\ inputPattern' = TogglePixel(inputPattern, index)
    /\ activations' = [i \in DOMAIN activations |->
                          IF i \in InputAliases THEN inputPattern' ELSE activations[i]]
    /\ lastOp' = "toggle"
    /\ UNCHANGED <<layers, weights, biases, activationFunction,
                   weightInputs, removeDisabled, results, timers, events,
                   prevLayers, layersBeforeAdd, lastEdit>>

PassNext ==
    \/ CalculateForwardPass
    \/ \E dataIndex \in PixelIndexes : TogglePixelInPlace(parseInt(dataIndex).n)

PassSpec == PassInit /\ [][PassNext]_vars

(* ------------------------------ properties ----------------------------- *)

\* The type and width of every layer of ls, in order.
Shape(ls) == [p \in 1..Len(ls) |-> <<ls[p].type, ls[p].neurons>>]

\* The layer list ls without the layer at index i (from 0).
Without(ls, i) == [p \in 1..(Len(ls) - 1) |-> IF p <= i THEN ls[p] ELSE ls[p + 1]]

\* v is an array of n numbers, each within [lo, hi].
IsVector(v, n, lo, hi) ==
    /\ v.k = "arr"
    /\ Length(v) = n
    /\ \A c \in 0..(n - 1) :
          /\ Idx(v, c).k = "num"
          /\ lo * Idx(v, c).d <= Idx(v, c).n
          /\ Idx(v, c).n <= hi * Idx(v, c).d

\* The weight tables one rebuild over ls can draw, one per stream: every pair
\* of ls gets the next rows * cols draws of the stream, in loop order.
FreshTables(ls) ==
    { [key \in PairKeys(ls) |->
          RandomMatrix(ls[key[1] + 1].neurons, ls[key[2] + 1].neurons,
                       seed, DrawsBefore(ls, key[1]))] : seed \in Seeds }

\* Every pair of ls has a matrix of numbers within [-1, 1] of the pair's shape.
WeightsWithinRange(ls, ws) ==
    /\ DOMAIN ws = PairKeys(ls)
    /\ \A key \in PairKeys(ls) :
          /\ ws[key].k = "arr"
          /\ Length(ws[key]) = ls[key[1] + 1].neurons
          /\ \A r \in 0..(ls[key[1] + 1].neurons - 1) :
                IsVector(Idx(ws[key], r), ls[key[2] + 1].neurons, -1, 1)

\* Every layer of ls but the first has a bias vector of zeros of its width.
BiasesZero(ls, bs) ==
    /\ DOMAIN bs = 1..(Len(ls) - 1)
    /\ \A i \in 1..(Len(ls) - 1) : IsVector(bs[i], ls[i + 1].neurons, 0, 0)

\* [[0.5, -0.5], [-0.5, 0.5], [-0.5, 0.5], [0.5, -0.5]]
IsFixedMatrix(m) ==
    /\ m.k = "arr"
    /\ Length(m) = 4
    /\ \A r \in 0..3 :
          /\ Idx(m, r).k = "arr"
          /\ Length(Idx(m, r)) = 2
          /\ Idx(Idx(m, r), 0) = (IF r \in {0, 3} THEN Num(1, 2) ELSE Num(-1, 2))
          /\ Idx(Idx(m, r), 1) = (IF r \in {0, 3} THEN Num(-1, 2) ELSE Num(1, 2))

\* C1: in every reachable state, for every adjacent layer pair (i, i+1) the
\* matrix weights['i-(i+1)'] exists with exactly width(i) rows, every row has
\* exactly width(i+1) entries, and biases['i+1'] exists with exactly
\* width(i+1) entries.
C1_ShapeInvariant ==
    \A i \in 0..(Len(layers) - 2) :
        /\ <<i, i + 1>> \in DOMAIN weights
        /\ weights[<<i, i + 1>>].k = "arr"
        /\ Length(weights[<<i, i + 1>>]) = layers[i + 1].neurons
        /\ \A r \in 0..(layers[i + 1].neurons - 1) :
              /\ Idx(weights[<<i, i + 1>>], r).k = "arr"
              /\ Length(Idx(weights[<<i, i + 1>>], r)) = layers[i + 2].neurons
        /\ (i + 1) \in DOMAIN biases
        /\ biases[i + 1].k = "arr"
        /\ Length(biases[i + 1]) = layers[i + 2].neurons

\* A weight edited in a network of four layers, built by two addHiddenLayer.
C1_Witness == lastOp = "weight" /\ Len(layers) = 4

\* C2: in every reachable state the layer list has length >= 2, the layer at
\* index 0 is the only input layer, the layer at the last index is the only
\* output layer, and every layer between them is a hidden layer.
C2_LayerSequence ==
    /\ Len(layers) >= 2
    /\ \A p \in 1..Len(layers) :
          layers[p].type = (IF p = 1 THEN "input"
                            ELSE IF p = Len(layers) THEN "output" ELSE "hidden")

\* A hidden layer removed from between two others.
C2_Witness == lastOp = "remove" /\ Len(prevLayers) = 4 /\ Len(layers) = 3

\* C3: after initialization and after every event handler has returned, the
\* stored activations equal the forward pass of the current layers, weights,
\* biases, inputPattern and activationFunction.
C3_ActivationsFresh ==
    activations = calculateForwardPass(layers, weights, biases, inputPattern,
                                       activationFunction)

\* A pixel toggled under a hidden layer: the handler changed the input and
\* with it the activations of every layer.
C3_Witness ==
    /\ lastOp = "pixel"
    /\ Len(layers) = 3
    /\ inputPattern # JArr(<<Num(1, 1), Num(0, 1), Num(0, 1), Num(1, 1)>>)
    /\ activations[0] = inputPattern

\* C4: resetToMIM leaves exactly [input(4), output(2)], the matrix
\* [[0.5,-0.5],[-0.5,0.5],[-0.5,0.5],[0.5,-0.5]] for pair (0,1) and biases
\* [0,0] for layer 1, whatever the state it is called in; the state after
\* construction holds the same topology, so a second reset changes nothing.
C4_ResetIsMIM ==
    lastOp \in {"init", "reset"} =>
        /\ Shape(layers) = << <<"input", 4>>, <<"output", 2>> >>
        /\ DOMAIN weights = {<<0, 1>>}
        /\ IsFixedMatrix(weights[<<0, 1>>])
        /\ DOMAIN biases = {1}
        /\ IsVector(biases[1], 2, 0, 0)

\* A reset of a network that had hidden layers, after an input event.
C4_Witness == lastOp = "reset" /\ Len(prevLayers) = 4 /\ events = 1

\* C5: addHiddenLayer makes the layer list longer by exactly 1, inserting one
\* hidden layer of width 3 at index (old length - 1), immediately before the
\* output layer; every layer it found keeps its type, width and order. The
\* operation has no cap of its own: applied to the layers of any state, the
\* longest the model reaches included, it inserts the same way.
C5_AddInsertsBeforeOutput ==
    /\ lastOp = "add" =>
          /\ Len(layers) = Len(prevLayers) + 1
          /\ layers[Len(prevLayers)].type = "hidden"
          /\ layers[Len(prevLayers)].neurons = 3
          /\ Without(layers, Len(prevLayers) - 1) = prevLayers
    /\ LET added == AddLayers(layers)
       IN  /\ Len(added) = Len(layers) + 1
           /\ Shape(added)[Len(layers)] = <<"hidden", 3>>
           /\ Without(added, Len(layers) - 1) = layers

\* A second hidden layer added: it stands between the first and the output.
C5_Witness ==
    /\ lastOp = "add"
    /\ Len(prevLayers) = 3
    /\ Shape(layers) = << <<"input", 4>>, <<"hidden", 3>>, <<"hidden", 3>>, <<"output", 2>> >>

\* C6: after addHiddenLayer every adjacent pair of the new layer list has a
\* matrix of freshly drawn weights within [-1, 1] and every bias is 0; the
\* weight table is one of the tables a rebuild of the new layer list draws,
\* whatever the weights were before the call.
C6_AddRebuildsAll ==
    lastOp = "add" =>
        /\ WeightsWithinRange(layers, weights)
        /\ weights \in FreshTables(layers)
        /\ BiasesZero(layers, biases)

\* An add in a network that already had weights for the pair (0,1) of the
\* same two layers: input and first hidden layer.
C6_Witness == lastOp = "add" /\ Len(prevLayers) = 3 /\ events = 1

\* C7: removeHiddenLayer with at most two layers changes nothing: layers,
\* weights, biases, inputPattern, activationFunction and activations stay
\* as they are.
C7_RemoveNoOp ==
    [][(lastOp' = "remove" /\ Len(layers) <= 2) =>
          UNCHANGED <<layers, weights, biases, inputPattern, activationFunction,
                      activations>>]_vars

\* A remove returned at once in a two-layer network whose weights the user
\* had edited: the edited matrix is still there.
C7_Witness ==
    /\ lastOp = "remove"
    /\ Len(prevLayers) = 2
    /\ Len(layers) = 2
    /\ ~IsFixedMatrix(weights[<<0, 1>>])

\* C8: removeHiddenLayer with more than two layers removes exactly the layer
\* before the output layer, the others keeping type, width, name and order,
\* and rebuilds every matrix and bias vector: biases are 0, and when more than
\* two layers remain every pair gets freshly drawn weights within [-1, 1].
C8_RemoveRebuildsAll ==
    (lastOp = "remove" /\ Len(prevLayers) > 2) =>
        /\ layers = Without(prevLayers, Len(prevLayers) - 2)
        /\ BiasesZero(layers, biases)
        /\ Len(layers) > 2 =>
              /\ WeightsWithinRange(layers, weights)
              /\ weights \in FreshTables(layers)

\* A remove that leaves one hidden layer, after an input event.
C8_Witness ==
    /\ lastOp = "remove"
    /\ Len(prevLayers) = 4
    /\ Shape(layers) = << <<"input", 4>>, <<"hidden", 3>>, <<"output", 2>> >>
    /\ events = 1

\* C9: whenever removeHiddenLayer leaves exactly two layers, the weights of
\* pair (0,1) are exactly [[0.5,-0.5],[-0.5,0.5],[-0.5,0.5],[0.5,-0.5]] and
\* the biases of layer 1 are [0,0].
C9_RemoveToTwoIsMIM ==
    (lastOp = "remove" /\ Len(prevLayers) > 2 /\ Len(layers) = 2) =>
        /\ DOMAIN weights = {<<0, 1>>}
        /\ IsFixedMatrix(weights[<<0, 1>>])
        /\ DOMAIN biases = {1}
        /\ IsVector(biases[1], 2, 0, 0)

\* addHiddenLayer then removeHiddenLayer from the two-layer network.
C9_Witness ==
    /\ lastOp = "remove"
    /\ Len(prevLayers) = 3
    /\ layersBeforeAdd = MIMLayers
    /\ layers = MIMLayers

\* C10: addHiddenLayer followed at once by removeHiddenLayer restores the
\* length of the layer list and the type and width of the layer at every
\* index to what they were before the add.
C10_AddRemoveRestoresShape ==
    (lastOp = "remove" /\ layersBeforeAdd # <<>>) =>
        /\ Len(layers) = Len(layersBeforeAdd)
        /\ Shape(layers) = Shape(layersBeforeAdd)

\* An add and the remove after it, in a network with a hidden layer.
C10_Witness ==
    /\ lastOp = "remove"
    /\ Len(layersBeforeAdd) = 3
    /\ Len(prevLayers) = 4
    /\ Len(layers) = 3

\* The (layerKey, row, column) of every element of every matrix of ws.
Positions(ws) ==
    UNION { UNION { { <<key, r, c>> : c \in 0..(Length(Idx(ws[key], r)) - 1) }
                    : r \in 0..(Length(ws[key]) - 1) }
            : key \in DOMAIN ws }

\* ws[e[1]][e[2]][e[3]]
EntryAt(ws, e) == Idx(Idx(Get(ws, e[1]), e[2]), e[3])

\* C11: updateWeight(layerKey, from, to, value) on an existing entry changes
\* exactly that one scalar: every other weight of every matrix, every bias,
\* the layer list, inputPattern and activationFunction are the same before
\* and after the call.
C11_WeightEditIsolation ==
    [][lastOp' = "weight" =>
          /\ UNCHANGED <<layers, biases, inputPattern, activationFunction>>
          /\ <<lastEdit'[1], lastEdit'[2], lastEdit'[3]>> \in Positions(weights)
          /\ Positions(weights') = Positions(weights)
          /\ \A e \in Positions(weights) :
                e # <<lastEdit'[1], lastEdit'[2], lastEdit'[3]>> =>
                    EntryAt(weights', e) = EntryAt(weights, e)]_vars

\* The weight from input 0 to hidden neuron 1 set to -2.5 under a hidden layer.
C11_Witness ==
    /\ lastOp = "weight"
    /\ Len(layers) = 3
    /\ lastEdit = << <<0, 1>>, 0, 1, <<"-", "2", ".", "5">> >>
    /\ EntryAt(weights, lastEdit) = Num(-5, 2)

\* What the claim has updateWeight store for a raw value: 0 when it does not
\* parse as a number, the parsed number when it does.
StoredFor(value) ==
    IF parseFloat(value).k = "nan" THEN Num(0, 1) ELSE parseFloat(value)

\* Raw values: empty, not numeric, numeric, numeric with a tail, a lone sign.
ParseSamples ==
    { <<>>, <<"a", "b", "c">>, <<"-", "2", ".", "5">>, <<" ", "3">>,
      <<"1", ".", "5", "x">>, <<"0">>, <<"-">>, <<".">> }

\* StoredFor of every sample.
SamplesStored == [value \in ParseSamples |-> StoredFor(value)]

\* C12: updateWeight stores exactly 0 for a raw value that does not parse as a
\* number (empty string, non-numeric text) and the parsed number for one that
\* parses; what it stores is always a number.
C12_WeightValueParsing ==
    /\ SamplesStored[<<>>] = Num(0, 1)
    /\ SamplesStored[<<"a", "b", "c">>] = Num(0, 1)
    /\ SamplesStored[<<"-", "2", ".", "5">>] = Num(-5, 2)
    /\ lastOp = "weight" =>
          /\ EntryAt(weights, lastEdit).k = "num"
          /\ EntryAt(weights, lastEdit) = SamplesStored[lastEdit[4]]
          /\ \A value \in ParseSamples :
                LET again == UpdatedWeights(weights, lastEdit[1], lastEdit[2],
                                            lastEdit[3], value)
                IN  /\ EntryAt(again, lastEdit).k = "num"
                    /\ EntryAt(again, lastEdit) = SamplesStored[value]

\* The empty string typed into a weight input of the preset network: the
\* weight, 0.5 or -0.5 before, is 0.
C12_Witness ==
    /\ lastOp = "weight"
    /\ Len(layers) = 2
    /\ lastEdit[4] = <<>>
    /\ EntryAt(weights, lastEdit) = Num(0, 1)

\* v, or 0 when v is absent.
ZeroIfAbsent(v) == IF v.k = "undef" THEN Num(0, 1) ELSE v

\* The weights ws completed for the layer list ls: 0 for every weight ws lacks.
FilledWeights(ls, ws) ==
    [key \in PairKeys(ls) |->
        JArr([r \in 1..ls[key[1] + 1].neurons |->
                JArr([c \in 1..ls[key[2] + 1].neurons |->
                        ZeroIfAbsent(EntryAt(ws, <<key, r - 1, c - 1>>))])])]

\* The biases bs completed for the layer list ls: 0 for every bias bs lacks.
FilledBiases(ls, bs) ==
    [i \in 1..(Len(ls) - 1) |->
        JArr([j \in 1..ls[i + 1].neurons |-> ZeroIfAbsent(Idx(Get(bs, i), j - 1))])]

\* C13: for any topology in which a weight matrix, a weight row, a single
\* weight entry inside an existing row, a bias vector or a single bias entry
\* is absent, calculateForwardPass computes every neuron as if the absent
\* value were exactly 0.
C13_MissingTreatedAsZero ==
    lastOp = "pass" =>
        activations = calculateForwardPass(layers, FilledWeights(layers, weights),
                                           FilledBiases(layers, biases),
                                           inputPattern, activationFunction)

\* The tables lack no weight and no bias of the layer list.
TablesComplete ==
    /\ weights = FilledWeights(layers, weights)
    /\ biases = FilledBiases(layers, biases)

\* bias + prev[0] * matrix[0][j] + ... + prev[n-1] * matrix[n-1][j]
RECURSIVE FormulaSum(_, _, _, _, _)
FormulaSum(prev, matrix, j, n, bias) ==
    IF n = 0 THEN bias
    ELSE Add(FormulaSum(prev, matrix, j, n - 1, bias),
             Mul(Idx(prev, n - 1), Idx(Idx(matrix, n - 1), j)))

\* C14: for every layer index i from 1 to layers.length-1 and every neuron j
\* of layer i, activations[i][j] = f(bias[i][j] + sum over all neurons k of
\* layer i-1 of activations[i-1][k] * weight[(i-1,i)][k][j]), f the chosen
\* activation function, each layer computed from the stored previous layer.
C14_ForwardPassFormula ==
    (lastOp = "pass" /\ TablesComplete) =>
        /\ DOMAIN activations = 0..(Len(layers) - 1)
        /\ \A i \in 1..(Len(layers) - 1) :
              /\ activations[i].k = "arr"
              /\ Length(activations[i]) = layers[i + 1].neurons
              /\ \A j \in 0..(layers[i + 1].neurons - 1) :
                    Idx(activations[i], j) =
                        activationFunctions(activationFunction,
                            FormulaSum(activations[i - 1], weights[<<i - 1, i>>], j,
                                       layers[i].neurons, Idx(biases[i], j)))

\* A pass through a hidden layer with biases 0.25 and relu.
C14_Witness ==
    /\ lastOp = "pass"
    /\ TablesComplete
    /\ Len(layers) = 3
    /\ Idx(biases[2], 1) = Num(1, 4)
    /\ activationFunction = "relu"
    /\ inputPattern = JArr(<<Num(0, 1), Num(1, 1), Num(1, 1), Num(0, 1)>>)

\* C15: in every state between user events activations[0] is element for
\* element equal to inputPattern, no activation function applied, whatever
\* the pattern and the activation function.
C15_InputLayerIdentity ==
    /\ 0 \in DOMAIN activations
    /\ activations[0].k = "arr"
    /\ Length(activations[0]) = Length(inputPattern)
    /\ \A n \in 0..(Length(inputPattern) - 1) :
          Idx(activations[0], n) = Idx(inputPattern, n)

\* The preset 0,1,1,1 chosen: the input layer holds it.
C15_Witness ==
    /\ lastOp = "pattern"
    /\ inputPattern = JArr(<<Num(0, 1), Num(1, 1), Num(1, 1), Num(1, 1)>>)
    /\ activations[0] = inputPattern

\* The indexes at which the patterns p and q differ.
Differences(p, q) == { n \in 0..(Length(p) - 1) : Idx(p, n) # Idx(q, n) }

\* The binary value that is not v.
Flipped(v) == IF v = Num(0, 1) THEN Num(1, 1) ELSE Num(0, 1)

\* The index each .pixel button hands to the toggle.
PixelNumbers == { parseInt(dataIndex).n : dataIndex \in PixelIndexes }

\* C16: a pixel toggle at index n (0 <= n < 4) flips inputPattern[n] between
\* 0 and 1 and leaves every other entry unchanged; toggling the same index
\* twice restores the pattern.
C16_PixelToggle ==
    /\ PixelNumbers = 0..3
    /\ \A n \in PixelNumbers :
          LET once == TogglePixel(inputPattern, n)
          IN  /\ Length(once) = Length(inputPattern)
              /\ Idx(once, n) = Flipped(Idx(inputPattern, n))
              /\ Differences(once, inputPattern) = {n}
              /\ TogglePixel(once, n) = inputPattern
    /\ (lastOp = "pixel" /\ events = 1) =>
          \E n \in 0..3 :
              LET before == JArr(<<Num(1, 1), Num(0, 1), Num(0, 1), Num(1, 1)>>)
              IN  /\ Length(inputPattern) = 4
                  /\ Differences(inputPattern, before) = {n}
                  /\ Idx(inputPattern, n) = Flipped(Idx(before, n))

\* The pixel 0 of the constructor's pattern 1,0,0,1 switched off.
C16_Witness ==
    /\ lastOp = "pixel"
    /\ inputPattern = JArr(<<Num(0, 1), Num(0, 1), Num(0, 1), Num(1, 1)>>)

\* p has width entries, each 0 or 1.
IsBinaryPattern(p, width) ==
    /\ p.k = "arr"
    /\ Length(p) = width
    /\ \A n \in 0..(Length(p) - 1) : Idx(p, n) \in { Num(0, 1), Num(1, 1) }

\* The pattern each preset button sets.
PresetValues == [dataPattern \in PresetPatterns |-> ParsePattern(dataPattern)]

\* C17: in every reachable state inputPattern has width(0) entries, each 0 or
\* 1; a preset selection replaces the whole pattern with the preset's values,
\* and every preset of the page has exactly width(0) binary entries.
C17_InputPatternInvariant ==
    /\ IsBinaryPattern(inputPattern, layers[1].neurons)
    /\ \A dataPattern \in PresetPatterns :
          IsBinaryPattern(PresetValues[dataPattern], layers[1].neurons)
    /\ lastOp = "pattern" =>
          \E dataPattern \in PresetPatterns :
              /\ Len(dataPattern) = 2 * Length(inputPattern) - 1
              /\ \A n \in 0..(Length(inputPattern) - 1) :
                    Idx(inputPattern, n) =
                        (IF dataPattern[2 * n + 1] = "1" THEN Num(1, 1) ELSE Num(0, 1))

\* The preset 1,1,0,0 chosen in a network with a hidden layer.
C17_Witness ==
    /\ lastOp = "pattern"
    /\ Len(layers) = 3
    /\ inputPattern = JArr(<<Num(1, 1), Num(1, 1), Num(0, 1), Num(0, 1)>>)

\* The layer list ls with every display name blanked.
Anonymous(ls) == [p \in 1..Len(ls) |-> [ls[p] EXCEPT !.name = <<>>]]

\* C18: the activations a forward pass stores depend on the widths of the
\* layers, the weights, the biases, inputPattern and activationFunction and
\* on nothing else: not on the display names of the layers, not on the
\* activations stored before, not on the operations that led to the state.
C18_ForwardPassDependsOnInputsOnly ==
    /\ DOMAIN activations = 0..(Len(layers) - 1)
    /\ activations = calculateForwardPass(Anonymous(layers), weights, biases,
                                          inputPattern, activationFunction)

\* A pass after a layer was removed: the pass before it had stored a layer
\* more, under other names.
C18_Witness ==
    /\ lastOp = "remove"
    /\ Len(prevLayers) = 4
    /\ Len(layers) = 3
    /\ layers[2].name = <<"Hidden", 1>>
    /\ events = 1

\* C19: with the default MIM topology, weights and biases, activationFunction
\* = linear and inputPattern = [1,0,0,1], the output-layer activations are
\* exactly [1.0, -1.0].
C19_LinearReferenceCase ==
    ( /\ Shape(layers) = << <<"input", 4>>, <<"output", 2>> >>
      /\ DOMAIN weights = {<<0, 1>>}
      /\ IsFixedMatrix(weights[<<0, 1>>])
      /\ BiasesZero(layers, biases)
      /\ activationFunction = "linear"
      /\ inputPattern = JArr(<<Num(1, 1), Num(0, 1), Num(0, 1), Num(1, 1)>>) ) =>
        activations[1] = JArr(<<Num(1, 1), Num(-1, 1)>>)

\* "linear" chosen in the state after construction.
C19_Witness ==
    /\ lastOp = "activation"
    /\ activationFunction = "linear"
    /\ Len(layers) = 2
    /\ inputPattern = JArr(<<Num(1, 1), Num(0, 1), Num(0, 1), Num(1, 1)>>)
    /\ activations[1] = JArr(<<Num(1, 1), Num(-1, 1)>>)

\* x < y, for numbers.
Less(x, y) == x.n * y.d < y.n * x.d

\* The state holds the preset network and, the function being linear, the
\* weighted sums of the two outputs as their activations.
DefaultMIMSums ==
    /\ lastOp = "pass"
    /\ layers = MIMLayers
    /\ weights = MIMWeights
    /\ biases = MIMBiases
    /\ activationFunction = "linear"

\* C20: in the default MIM configuration, for inputPattern [1,0,0,1] the
\* weighted sum of output 0 is strictly greater than that of output 1, for
\* [0,1,1,0] that of output 1 is strictly greater than that of output 0, and
\* among the 16 binary patterns each output's weighted sum is greatest on its
\* own diagonal and on no other pattern.
C20_DiagonalDetection ==
    DefaultMIMSums =>
        LET sum0 == Idx(activations[1], 0)
            sum1 == Idx(activations[1], 1)
            diag0 == JArr(<<Num(1, 1), Num(0, 1), Num(0, 1), Num(1, 1)>>)
            diag1 == JArr(<<Num(0, 1), Num(1, 1), Num(1, 1), Num(0, 1)>>)
        IN  /\ IsNum(sum0) /\ IsNum(sum1)
            /\ inputPattern = diag0 => (Less(sum1, sum0) /\ sum0 = Num(1, 1))
            /\ inputPattern = diag1 => (Less(sum0, sum1) /\ sum1 = Num(1, 1))
            /\ inputPattern # diag0 => Less(sum0, Num(1, 1))
            /\ inputPattern # diag1 => Less(sum1, Num(1, 1))

\* The pass on the right-to-left diagonal.
C20_Witness ==
    /\ DefaultMIMSums
    /\ inputPattern = JArr(<<Num(0, 1), Num(1, 1), Num(1, 1), Num(0, 1)>>)
    /\ activations[1] = JArr(<<Num(-1, 1), Num(1, 1)>>)

\* A step of the activationSelect change listener.
ActivationStep == lastOp' = "activation" /\ events' = events + 1

\* C21 as stated: choosing an activation function is a pure assignment; the
\* stored activations are the same after the choice as before it.
C21_PureAssignment ==
    [][ActivationStep => activations' = activations]_vars

\* C21, amended: choosing an activation function assigns activationFunction
\* and recomputes in the same handler: the activations stored after the choice
\* are those of a forward pass under the chosen function over the unchanged
\* layers, weights, biases and inputPattern.
C21_ChoiceRecomputes ==
    [][ActivationStep =>
         /\ activations' = calculateForwardPass(layers, weights, biases,
                                                inputPattern, activationFunction')
         /\ UNCHANGED <<layers, weights, biases, inputPattern>>]_vars

\* "tanh" chosen in the state after construction: the output layer holds
\* tanh(1) where it held sigmoid(1).
C21_Witness ==
    /\ lastOp = "activation"
    /\ activationFunction = "tanh"
    /\ Len(layers) = 2
    /\ Idx(activations[1], 0) = JVal("app", 0, 1, "tanh", <<Num(1, 1)>>)

\* The non-input neurons (i, j): layer i from 1, neuron j from 0.
BiasedNeurons ==
    UNION { { <<i, j>> : j \in 0..(layers[i + 1].neurons - 1) } :
            i \in 1..(Len(layers) - 1) }

\* C22 as stated: biases are user-editable; the inputs the page has rendered
\* include, for every neuron of a non-input layer, one that addresses the bias
\* of that neuron, as <<layerKey, fromNeuron, toNeuron>> addresses a weight.
C22_BiasEditable ==
    \A neuron \in BiasedNeurons : neuron \in weightInputs

\* The hidden layers among the first p layers of the layer list.
HiddenUpTo(p) == { q \in 1..p : layers[q].type = "hidden" }

\* C25 as stated: addHiddenLayer names the inserted layer "Hidden N", N its
\* 1-based position among the non-output layers of the resulting layer list
\* (the input layer is the first of them).
C25_NamedByPosition ==
    lastOp = "add" =>
        layers[Len(prevLayers)].name = <<"Hidden", Len(prevLayers)>>

\* C25, amended: addHiddenLayer names the inserted layer "Hidden N", N its
\* 1-based position among the hidden layers of the resulting layer list (the
\* input layer is not counted): N is the length of the list before the
\* insertion minus 1.
C25_NamedAmongHidden ==
    lastOp = "add" =>
        /\ layers[Len(prevLayers)].type = "hidden"
        /\ layers[Len(prevLayers)].name =
              <<"Hidden", Cardinality(HiddenUpTo(Len(prevLayers)))>>
        /\ layers[Len(prevLayers)].name = <<"Hidden", Len(prevLayers) - 1>>

\* A second hidden layer added: it is "Hidden 2", the third non-output layer.
C25_Witness ==
    /\ lastOp = "add"
    /\ Len(layers) = 4
    /\ layers[3].name = <<"Hidden", 2>>
    /\ layers[2].name = <<"Hidden", 1>>

\* C26: in every reachable state the activations map has exactly the keys
\* 0..layers.length-1 and activations[i] has exactly width(i) entries; the
\* weights map has exactly the keys of the adjacent pairs of the current layer
\* list and the biases map exactly the keys 1..layers.length-1: nothing of a
\* removed layer survives removeHiddenLayer or resetToMIM.
C26_NoStaleKeys ==
    /\ DOMAIN activations = 0..(Len(layers) - 1)
    /\ \A i \in 0..(Len(layers) - 1) :
          /\ activations[i].k = "arr"
          /\ Length(activations[i]) = layers[i + 1].neurons
    /\ DOMAIN weights = { <<i, i + 1>> : i \in 0..(Len(layers) - 2) }
    /\ DOMAIN biases = 1..(Len(layers) - 1)

\* A reset of a network with two hidden layers: the maps are left with the
\* keys of the two layers.
C26_Witness ==
    /\ lastOp = "reset"
    /\ Len(prevLayers) = 4
    /\ DOMAIN activations = {0, 1}
    /\ DOMAIN weights = {<<0, 1>>}
    /\ DOMAIN biases = {1}

\* C27: in every reachable state the input layer has width 4, the output
\* layer width 2 and every hidden layer width 3; so the 4x2 matrix that
\* removeHiddenLayer installs when two layers remain has width(0) rows of
\* width(1) entries.
C27_WidthsByKind ==
    /\ \A p \in 1..Len(layers) :
          layers[p].neurons = (CASE layers[p].type = "input" -> 4
                                 [] layers[p].type = "output" -> 2
                                 [] layers[p].type = "hidden" -> 3)
    /\ (lastOp = "remove" /\ Len(layers) = 2 /\ Len(prevLayers) = 3) =>
          /\ IsFixedMatrix(weights[<<0, 1>>])
          /\ Length(weights[<<0, 1>>]) = layers[1].neurons
          /\ \A r \in 0..(layers[1].neurons - 1) :
                Length(Idx(weights[<<0, 1>>], r)) = layers[2].neurons

\* The only hidden layer removed after an input event: the preset matrix is
\* installed between the input layer and the output layer.
C27_Witness ==
    /\ lastOp = "remove"
    /\ Len(prevLayers) = 3
    /\ Shape(layers) = << <<"input", 4>>, <<"output", 2>> >>
    /\ events = 1

\* C28: a pixel toggle, a preset selection and a change of activation
\* function leave layers, weights and biases unchanged; addHiddenLayer,
\* removeHiddenLayer and resetToMIM leave inputPattern and activationFunction
\* unchanged (a reset restores neither the start-up pattern nor sigmoid).
C28_DisjointFrames ==
    [][ /\ (lastOp' \in {"pixel", "pattern", "activation"} /\ events' = events + 1) =>
              UNCHANGED <<layers, weights, biases>>
        /\ (lastOp' \in {"add", "remove", "reset"} /\ events' = events) =>
              UNCHANGED <<inputPattern, activationFunction>> ]_vars

\* A reset of a network with a hidden layer under relu: relu stays chosen.
C28_Witness ==
    /\ lastOp = "reset"
    /\ Len(prevLayers) = 3
    /\ activationFunction = "relu"
    /\ layers = MIMLayers

\* C29 as stated: in every reachable state, the state right after
\* initialization included, the Remove Layer button is disabled if and only
\* if layers.length <= 2.
C29_RemoveButtonState ==
    removeDisabled <=> (Len(layers) <= 2)

\* C30: after every event handler has returned and after every delayed
\* callback of animateCalculation has run, the values renderResults displayed
\* last are the current activations of the current last layer; a callback
\* scheduled before a later mutation displays the state it finds when it runs.
C30_ResultsCurrent ==
    /\ (Len(layers) - 1) \in DOMAIN activations
    /\ results = activations[Len(layers) - 1]

\* An animated input event and a hidden layer added, and the callback the
\* event scheduled has run: the results are those of the three-layer network.
C30_Witness ==
    /\ lastOp = "add"
    /\ events = 1
    /\ lastEdit = <<>>
    /\ prevLayers = MIMLayers
    /\ timers = [results |-> 0, visual |-> 1]
    /\ Len(layers) = 3
    /\ results = activations[2]
    /\ inputPattern = JArr(<<Num(1, 1), Num(0, 1), Num(0, 1), Num(1, 1)>>)
    /\ activationFunction = "sigmoid"

\* A step in which a delayed callback runs.
TimerStep ==
    \/ timers'.results < timers.results
    \/ timers'.visual < timers.visual

\* C23: whenever a delayed callback of animateCalculation or of
\* renderNetwork(true) runs, whatever handlers ran since it was scheduled, it
\* leaves layers, weights, biases, inputPattern, activationFunction and
\* activations as they are.
C23_CallbacksPresentationOnly ==
    [][TimerStep => UNCHANGED <<layers, weights, biases, inputPattern,
                                activationFunction, activations>>]_vars

\* A pixel toggled and a hidden layer added before the callbacks ran; the
\* pulse and fade callbacks have run, the callback of animateCalculation is
\* still pending, and the tables are those the add built.
C23_Witness ==
    /\ lastOp = "add"
    /\ events = 1
    /\ timers = [results |-> 1, visual |-> 0]
    /\ Len(layers) = 3
    /\ inputPattern = JArr(<<Num(0, 1), Num(0, 1), Num(0, 1), Num(1, 1)>>)
    /\ weights \in FreshTables(layers)

\* C24: calculateForwardPass writes the activations map and leaves layers,
\* weights, biases, inputPattern and activationFunction unchanged; and
\* activations[0] is a copy: a pixel toggled in place after the pass changes
\* inputPattern and leaves the stored activations, key 0 included, as the
\* pass stored them.
C24_PassIsPure ==
    [][ /\ lastOp' = "pass" =>
              UNCHANGED <<layers, weights, biases, inputPattern, activationFunction>>
        /\ lastOp' = "toggle" =>
              /\ inputPattern' # inputPattern
              /\ activations' = activations
              /\ activations'[0] # inputPattern' ]_vars

\* Pixel 0 toggled after a pass through a hidden layer: the stored input
\* layer still holds the pattern the pass read.
C24_Witness ==
    /\ lastOp = "toggle"
    /\ Len(layers) = 3
    /\ activations[0] = JArr(<<Num(1, 1), Num(0, 1), Num(0, 1), Num(1, 1)>>)
    /\ inputPattern = JArr(<<Num(0, 1), Num(0, 1), Num(0, 1), Num(1, 1)>>)

====
